---- MODULE Spec2Model ----
(***************************************************************************)
(* Register-level model of the PCF85063 RTC driver.                        *)
(*                                                                         *)
(* The chip is a bank of byte registers behind an I2C transport.  Every    *)
(* driver operation is a sequence of transport calls; a transport call     *)
(* either succeeds or fails with the transport's error value, and a        *)
(* failed call has no effect on the chip.  Each action below is one whole  *)
(* driver call: it draws its arguments and the transport's fault plan      *)
(* (which call, if any, fails) and records the outcome.                    *)
(***************************************************************************)
EXTENDS Integers, Sequences, FiniteSets, TLC

VARIABLES
    regs,     \* chip registers, address -> byte
    pre,      \* chip registers when the last driver call started
    op,       \* the last driver call and its arguments
    result,   \* what the last driver call returned
    txns,     \* bus transactions issued by the last driver call, in order
    nops,     \* number of driver calls made so far
    rmw       \* the driver call suspended between two transport calls, if any

vars == <<regs, pre, op, result, txns, nops, rmw>>

(***************************************************************************)
(* Bounds                                                                  *)
(***************************************************************************)
MaxOps == 2

\* writes by another bus master
MaxForeign == 1

(***************************************************************************)
(* u8 arithmetic                                                           *)
(***************************************************************************)
Byte == 0..255

RECURSIVE BitAnd(_, _)
BitAnd(a, b) ==
    IF a = 0 \/ b = 0 THEN 0
    ELSE (a % 2) * (b % 2) + 2 * BitAnd(a \div 2, b \div 2)

RECURSIVE BitOr(_, _)
BitOr(a, b) ==
    IF a = 0 THEN b
    ELSE IF b = 0 THEN a
    ELSE (IF a % 2 = 1 \/ b % 2 = 1 THEN 1 ELSE 0) + 2 * BitOr(a \div 2, b \div 2)

RECURSIVE BitXor(_, _)
BitXor(a, b) ==
    IF a = 0 THEN b
    ELSE IF b = 0 THEN a
    ELSE ((a + b) % 2) + 2 * BitXor(a \div 2, b \div 2)

BitNot(a) == 255 - a

Shl(a, k) == (a * (2 ^ k)) % 256

Shr(a, k) == a \div (2 ^ k)

(***************************************************************************)
(* Register map and bit flags                                              *)
(***************************************************************************)
CONTROL_1 == 0
CONTROL_2 == 1
OFFSET == 2
RAM_BYTE == 3
SECONDS == 4
MINUTES == 5
HOURS == 6
DAYS == 7
WEEKDAYS == 8
MONTHS == 9
YEARS == 10
SECOND_ALARM == 11
MINUTE_ALARM == 12
HOUR_ALARM == 13
DAY_ALARM == 14
WEEKDAY_ALARM == 15
TIMER_VALUE == 16
TIMER_MODE == 17

Registers == CONTROL_1..TIMER_MODE

AlarmRegisters == {SECOND_ALARM, MINUTE_ALARM, HOUR_ALARM, DAY_ALARM, WEEKDAY_ALARM}

STOP == 32

COF == 7

AF == 64

AIE == 128

AE == 128

DEVICE_ADDRESS == 81

(***************************************************************************)
(* BCD codec                                                               *)
(***************************************************************************)
\* decode_bcd reading only two bits of the tens digit
decode_bcd_mut(input) ==
    LET digits == BitAnd(input, 15)
        tens   == BitAnd(Shr(input, 4), 3)
    IN  10 * tens + digits

\* decode_bcd taking the whole upper nibble as the tens digit
decode_bcd_nibble(input) ==
    LET digits == BitAnd(input, 15)
        tens   == BitAnd(Shr(input, 4), 15)
    IN  10 * tens + digits

decode_bcd(input) ==
    LET digits == BitAnd(input, 15)
        tens   == BitAnd(Shr(input, 4), 7)
    IN  10 * tens + digits

\* encode_bcd that shifts the tens digit by three bits
encode_bcd_mut(input) ==
    LET digits == input % 10
        tens   == Shl(input \div 10, 3)
    IN  (tens + digits) % 256

encode_bcd(input) ==
    LET digits == input % 10
        tens   == Shl(input \div 10, 4)
    IN  (tens + digits) % 256

(***************************************************************************)
(* Values returned by driver calls and the record of a call                *)
(***************************************************************************)
NoDateTime ==
    [year |-> 0, month |-> 0, weekday |-> 0, day |-> 0,
     hours |-> 0, minutes |-> 0, seconds |-> 0]

NoTime == [hours |-> 0, minutes |-> 0, seconds |-> 0]

NoResult ==
    [kind |-> "None", val |-> 0, flag |-> FALSE, err |-> "None", dt |-> NoDateTime]

OkUnit == [NoResult EXCEPT !.kind = "Ok"]

OkByte(v) == [NoResult EXCEPT !.kind = "Ok", !.val = v]

OkBool(b) == [NoResult EXCEPT !.kind = "Ok", !.flag = b]

OkDateTime(d) == [NoResult EXCEPT !.kind = "Ok", !.dt = d]

ErrI2C(e) == [NoResult EXCEPT !.kind = "I2C", !.err = e]

ErrInvalidInputData == [NoResult EXCEPT !.kind = "InvalidInputData"]

NoOp ==
    [name |-> "none", reg |-> 0, val |-> 0, status |-> "-",
     dt |-> NoDateTime, time |-> NoTime]

\* no driver call is suspended: pc is the position of the running call
\* ("idle": none, "read_done": between two transport calls), f its fault
\* plan, before the target register's byte when the driver last wrote it,
\* window / after tell whether another master wrote the target register
\* during the call / since the call ended, nforeign counts those writes.
RmwIdle ==
    [pc |-> "idle", f |-> [at |-> 0, err |-> "None"], before |-> 0,
     window |-> FALSE, after |-> FALSE, nforeign |-> 0]

(***************************************************************************)
(* The I2C transport and the chip behind it.                               *)
(* m = [regs, txns] is the chip and the transactions issued so far by the  *)
(* running call; f = [at, err] makes the at-th transport call of the       *)
(* running call fail with err (at = 0: no call fails).                     *)
(***************************************************************************)
BusErrors == {"Nack", "ArbitrationLoss"}

NoFault == [at |-> 0, err |-> "None"]

Faults(n) == {NoFault} \cup {[at |-> k, err |-> e] : k \in 1..n, e \in BusErrors}

Machine(r) == [regs |-> r, txns |-> <<>>]

Failing(m, f) == f.at = Len(m.txns) + 1

\* write(address, payload): payload[1] is the register pointer, the
\* following bytes go to consecutive registers.
i2c_write(m, payload, f) ==
    LET t == [kind |-> "write", address |-> DEVICE_ADDRESS, bytes |-> payload,
              nread |-> 0, ok |-> ~Failing(m, f),
              err |-> IF Failing(m, f) THEN f.err ELSE "None"]
    IN  IF Failing(m, f)
        THEN [m |-> [m EXCEPT !.txns = Append(@, t)], r |-> ErrI2C(f.err), data |-> <<>>]
        ELSE [m |-> [regs |-> [a \in Registers |->
                                 IF a >= payload[1] /\ a < payload[1] + Len(payload) - 1
                                 THEN payload[a - payload[1] + 2]
                                 ELSE m.regs[a]],
                     txns |-> Append(m.txns, t)],
              r |-> OkUnit, data |-> <<>>]

\* write_read(address, [register], buffer of n bytes): reads n consecutive
\* registers starting at the register pointer.
i2c_write_read(m, out, n, f) ==
    LET t == [kind |-> "write_read", address |-> DEVICE_ADDRESS, bytes |-> out,
              nread |-> n, ok |-> ~Failing(m, f),
              err |-> IF Failing(m, f) THEN f.err ELSE "None"]
    IN  IF Failing(m, f)
        THEN [m |-> [m EXCEPT !.txns = Append(@, t)], r |-> ErrI2C(f.err), data |-> <<>>]
        ELSE [m |-> [m EXCEPT !.txns = Append(@, t)], r |-> OkUnit,
              data |-> [i \in 1..n |-> m.regs[out[1] + i - 1]]]

(***************************************************************************)
(* Bus accessor                                                            *)
(***************************************************************************)
write_register(m, register, data, f) ==
    LET w == i2c_write(m, <<register, data>>, f)
    IN  [m |-> w.m, r |-> w.r]

read_register(m, register, f) ==
    LET t == i2c_write_read(m, <<register>>, 1, f)
    IN  IF t.r.kind = "Ok"
        THEN [m |-> t.m, r |-> OkByte(t.data[1])]
        ELSE [m |-> t.m, r |-> t.r]

is_register_bit_flag_high(m, address, bitmask, f) ==
    LET rd == read_register(m, address, f)
    IN  IF rd.r.kind # "Ok" THEN rd
        ELSE [m |-> rd.m, r |-> OkBool(BitAnd(rd.r.val, bitmask) # 0)]

\* set_register_bit_flag that takes a failed read as the byte 0 and goes on
set_register_bit_flag_mut(m, address, bitmask, f) ==
    LET rd   == read_register(m, address, f)
        data == IF rd.r.kind = "Ok" THEN rd.r.val ELSE 0
    IN  IF BitAnd(data, bitmask) = 0
        THEN write_register(rd.m, address, BitOr(data, bitmask), f)
        ELSE [m |-> rd.m, r |-> OkUnit]

set_register_bit_flag(m, address, bitmask, f) ==
    LET rd == read_register(m, address, f)
    IN  IF rd.r.kind # "Ok" THEN rd
        ELSE IF BitAnd(rd.r.val, bitmask) = 0
             THEN write_register(rd.m, address, BitOr(rd.r.val, bitmask), f)
             ELSE [m |-> rd.m, r |-> OkUnit]

\* clear_register_bit_flag that writes only when every masked bit is set
clear_register_bit_flag_mut(m, address, bitmask, f) ==
    LET rd == read_register(m, address, f)
    IN  IF rd.r.kind # "Ok" THEN rd
        ELSE IF BitAnd(rd.r.val, bitmask) = bitmask
             THEN write_register(rd.m, address, BitAnd(rd.r.val, BitNot(bitmask)), f)
             ELSE [m |-> rd.m, r |-> OkUnit]

clear_register_bit_flag(m, address, bitmask, f) ==
    LET rd == read_register(m, address, f)
    IN  IF rd.r.kind # "Ok" THEN rd
        ELSE IF BitAnd(rd.r.val, bitmask) # 0
             THEN write_register(rd.m, address, BitAnd(rd.r.val, BitNot(bitmask)), f)
             ELSE [m |-> rd.m, r |-> OkUnit]

(***************************************************************************)
(* Recording a finished driver call                                        *)
(***************************************************************************)
CanCall == nops < MaxOps

Finish(o, out) ==
    /\ pre' = regs
    /\ op' = o
    /\ regs' = out.m.regs
    /\ txns' = out.m.txns
    /\ result' = out.r
    /\ nops' = nops + 1
    /\ rmw' = rmw

(***************************************************************************)
(* Specification of the codec alone: the two conversions applied to every  *)
(* u8.                                                                     *)
(***************************************************************************)
InitBcd ==
    /\ regs = [a \in Registers |-> 0]
    /\ pre = regs
    /\ op = NoOp
    /\ result = NoResult
    /\ txns = <<>>
    /\ nops = 0
    /\ rmw = RmwIdle

EncodeBcd ==
    \E v \in Byte :
        /\ op' = [NoOp EXCEPT !.name = "encode_bcd", !.val = v]
        /\ result' = OkByte(encode_bcd(v))
        /\ UNCHANGED <<regs, pre, txns, nops, rmw>>

DecodeBcd ==
    \E b \in Byte :
        /\ op' = [NoOp EXCEPT !.name = "decode_bcd", !.val = b]
        /\ result' = OkByte(decode_bcd(b))
        /\ UNCHANGED <<regs, pre, txns, nops, rmw>>

NextBcd == EncodeBcd \/ DecodeBcd

SpecBcd == InitBcd /\ [][NextBcd]_vars

\* C3 as stated: for every v in 0..99, decode_bcd(encode_bcd(v)) = v.
C3_RoundTrip_0_99 ==
    (op.name = "encode_bcd" /\ op.val <= 99) => decode_bcd(result.val) = op.val

\* C3 amended: for every v in 0..79, decode_bcd(encode_bcd(v)) = v; for v in
\* 80..99 the tens digit needs bit 7, which decode_bcd drops, and the
\* result is v - 80.
C3_RoundTrip_0_79 ==
    (op.name = "encode_bcd" /\ op.val <= 99) =>
        decode_bcd(result.val) = (IF op.val <= 79 THEN op.val ELSE op.val - 80)

C3_Witness ==
    op.name = "encode_bcd" /\ op.val = 79 /\ result.val = 121

(***************************************************************************)
(* Date and time                                                           *)
(***************************************************************************)
DateTime_default ==
    [year |-> 0, month |-> 1, weekday |-> 6, day |-> 1,
     hours |-> 0, minutes |-> 0, seconds |-> 0]

DateTime_is_valid(d) ==
    \/ d.year <= 99
    \/ d.month >= 1
    \/ d.month <= 12
    \/ d.weekday <= 6
    \/ d.day >= 1
    \/ d.month <= 31
    \/ d.hours <= 23
    \/ d.minutes <= 59
    \/ d.seconds <= 59

Time_is_valid(t) == t.hours <= 23 \/ t.minutes <= 59 \/ t.seconds <= 59

get_datetime(m, f) ==
    LET t == i2c_write_read(m, <<SECONDS>>, 7, f)
        data == t.data
    IN  IF t.r.kind # "Ok" THEN [m |-> t.m, r |-> t.r]
        ELSE [m |-> t.m,
              r |-> OkDateTime(
                  [year    |-> decode_bcd(data[7]),
                   month   |-> decode_bcd(BitAnd(data[6], 31)),
                   weekday |-> decode_bcd(BitAnd(data[5], 7)),
                   day     |-> decode_bcd(BitAnd(data[4], 63)),
                   hours   |-> decode_bcd(BitAnd(data[3], 63)),
                   minutes |-> decode_bcd(BitAnd(data[2], 127)),
                   seconds |-> decode_bcd(BitAnd(data[1], 127))])]

\* set_datetime with the day and weekday bytes in each other's place
set_datetime_mut(m, datetime, f) ==
    IF ~DateTime_is_valid(datetime) THEN [m |-> m, r |-> ErrInvalidInputData]
    ELSE LET payload == <<SECONDS,
                          encode_bcd(datetime.seconds),
                          encode_bcd(datetime.minutes),
                          encode_bcd(datetime.hours),
                          encode_bcd(datetime.weekday),
                          encode_bcd(datetime.day),
                          encode_bcd(datetime.month),
                          encode_bcd(datetime.year)>>
             w == i2c_write(m, payload, f)
         IN  [m |-> w.m, r |-> w.r]

set_datetime(m, datetime, f) ==
    IF ~DateTime_is_valid(datetime) THEN [m |-> m, r |-> ErrInvalidInputData]
    ELSE LET payload == <<SECONDS,
                          encode_bcd(datetime.seconds),
                          encode_bcd(datetime.minutes),
                          encode_bcd(datetime.hours),
                          encode_bcd(datetime.day),
                          encode_bcd(datetime.weekday),
                          encode_bcd(datetime.month),
                          encode_bcd(datetime.year)>>
             w == i2c_write(m, payload, f)
         IN  [m |-> w.m, r |-> w.r]

\* set_time whose burst also carries a day byte
set_time_mut(m, time, f) ==
    IF ~Time_is_valid(time) THEN [m |-> m, r |-> ErrInvalidInputData]
    ELSE LET payload == <<SECONDS,
                          encode_bcd(time.seconds),
                          encode_bcd(time.minutes),
                          encode_bcd(time.hours),
                          encode_bcd(1)>>
             w == i2c_write(m, payload, f)
         IN  [m |-> w.m, r |-> w.r]

set_time(m, time, f) ==
    IF ~Time_is_valid(time) THEN [m |-> m, r |-> ErrInvalidInputData]
    ELSE LET payload == <<SECONDS,
                          encode_bcd(time.seconds),
                          encode_bcd(time.minutes),
                          encode_bcd(time.hours)>>
             w == i2c_write(m, payload, f)
         IN  [m |-> w.m, r |-> w.r]

(***************************************************************************)
(* The documented ranges of the fields (DateTime and Time field comments)  *)
(***************************************************************************)
TimeInRange(t) == t.hours <= 23 /\ t.minutes <= 59 /\ t.seconds <= 59

DateTimeInRange(d) ==
    /\ d.year <= 99
    /\ d.month >= 1 /\ d.month <= 12
    /\ d.weekday <= 6
    /\ d.day >= 1 /\ d.day <= 31
    /\ TimeInRange(d)

(***************************************************************************)
(* Arguments the actions draw from: a valid date and time with one field   *)
(* replaced by the ends of its range and by values just outside it.        *)
(***************************************************************************)
SampleBytes == {0, 89, 127, 128, 165, 255}

BaseDateTime ==
    [year |-> 23, month |-> 6, weekday |-> 3, day |-> 15,
     hours |-> 12, minutes |-> 30, seconds |-> 45]

BaseTime == [hours |-> 12, minutes |-> 30, seconds |-> 45]

DateTimes ==
    {DateTime_default, BaseDateTime}
    \cup {[BaseDateTime EXCEPT !.year = v]    : v \in {0, 79, 80, 99, 100, 255}}
    \cup {[BaseDateTime EXCEPT !.month = v]   : v \in {0, 1, 12, 13}}
    \cup {[BaseDateTime EXCEPT !.weekday = v] : v \in {0, 6, 7}}
    \cup {[BaseDateTime EXCEPT !.day = v]     : v \in {0, 1, 31, 32}}
    \cup {[BaseDateTime EXCEPT !.hours = v]   : v \in {0, 23, 24}}
    \cup {[BaseDateTime EXCEPT !.minutes = v] : v \in {0, 59, 60}}
    \cup {[BaseDateTime EXCEPT !.seconds = v] : v \in {0, 59, 60}}

Times ==
    {BaseTime, [hours |-> 24, minutes |-> 60, seconds |-> 60]}
    \cup {[BaseTime EXCEPT !.hours = v]   : v \in {0, 23, 24}}
    \cup {[BaseTime EXCEPT !.minutes = v] : v \in {0, 59, 60}}
    \cup {[BaseTime EXCEPT !.seconds = v] : v \in {0, 59, 60}}

(***************************************************************************)
(* The chip's registers hold whatever the chip was left with when the      *)
(* driver is constructed; the driver itself has no state.                  *)
(***************************************************************************)
Init ==
    /\ regs \in {[a \in Registers |-> b] : b \in SampleBytes}
    /\ pre = regs
    /\ op = NoOp
    /\ result = NoResult
    /\ txns = <<>>
    /\ nops = 0
    /\ rmw = RmwIdle

GetDatetime ==
    \E f \in Faults(1) :
        /\ CanCall
        /\ Finish([NoOp EXCEPT !.name = "get_datetime"],
                  get_datetime(Machine(regs), f))

SetDatetime ==
    \E d \in DateTimes, f \in Faults(1) :
        /\ CanCall
        /\ Finish([NoOp EXCEPT !.name = "set_datetime", !.dt = d],
                  set_datetime(Machine(regs), d, f))

SetTime ==
    \E t \in Times, f \in Faults(1) :
        /\ CanCall
        /\ Finish([NoOp EXCEPT !.name = "set_time", !.time = t],
                  set_time(Machine(regs), t, f))

NextDateTime == GetDatetime \/ SetDatetime \/ SetTime

SpecDateTime == Init /\ [][NextDateTime]_vars

\* C1: set_datetime with a field out of range returns InvalidInputData and
\* issues no bus transaction, so every chip register is unchanged.
C1_SetDatetimeRejectsOutOfRange ==
    (op.name = "set_datetime" /\ ~DateTimeInRange(op.dt)) =>
        (result.kind = "InvalidInputData" /\ txns = <<>> /\ regs = pre)

\* C2: set_time with a field out of range returns InvalidInputData and
\* issues no bus transaction.
C2_SetTimeRejectsOutOfRange ==
    (op.name = "set_time" /\ ~TimeInRange(op.time)) =>
        (result.kind = "InvalidInputData" /\ txns = <<>> /\ regs = pre)

\* C4: a successful set_datetime of an in-range DateTime directly followed
\* by a successful get_datetime returns the DateTime that was written.
C4_DatetimeRoundTrip ==
    [][(/\ op.name = "set_datetime"
        /\ result.kind = "Ok"
        /\ DateTimeInRange(op.dt)
        /\ op'.name = "get_datetime"
        /\ result'.kind = "Ok") => result'.dt = op.dt]_vars

(***************************************************************************)
(* Alarm fields: setters                                                   *)
(***************************************************************************)
\* set_alarm_seconds that ORs the new value into the whole old byte
set_alarm_seconds_mut(m, seconds, f) ==
    IF seconds > 59 THEN [m |-> m, r |-> ErrInvalidInputData]
    ELSE LET rd == read_register(m, SECOND_ALARM, f)
         IN  IF rd.r.kind # "Ok" THEN rd
             ELSE LET setting == encode_bcd(seconds)
                      data    == BitOr(rd.r.val, setting)
                  IN  write_register(rd.m, SECOND_ALARM, data, f)

set_alarm_seconds(m, seconds, f) ==
    IF seconds > 59 THEN [m |-> m, r |-> ErrInvalidInputData]
    ELSE LET rd == read_register(m, SECOND_ALARM, f)
         IN  IF rd.r.kind # "Ok" THEN rd
             ELSE LET kept    == BitAnd(rd.r.val, AE)
                      setting == encode_bcd(seconds)
                      data    == BitOr(kept, setting)
                  IN  write_register(rd.m, SECOND_ALARM, data, f)

\* set_alarm_minutes that writes the new byte to the seconds alarm register
set_alarm_minutes_mut(m, minutes, f) ==
    IF minutes > 59 THEN [m |-> m, r |-> ErrInvalidInputData]
    ELSE LET rd == read_register(m, MINUTE_ALARM, f)
         IN  IF rd.r.kind # "Ok" THEN rd
             ELSE LET kept    == BitAnd(rd.r.val, AE)
                      setting == encode_bcd(minutes)
                      data    == BitOr(kept, setting)
                  IN  write_register(rd.m, SECOND_ALARM, data, f)

set_alarm_minutes(m, minutes, f) ==
    IF minutes > 59 THEN [m |-> m, r |-> ErrInvalidInputData]
    ELSE LET rd == read_register(m, MINUTE_ALARM, f)
         IN  IF rd.r.kind # "Ok" THEN rd
             ELSE LET kept    == BitAnd(rd.r.val, AE)
                      setting == encode_bcd(minutes)
                      data    == BitOr(kept, setting)
                  IN  write_register(rd.m, MINUTE_ALARM, data, f)

\* set_alarm_hours that clears the value bits in a first write and stores
\* the new value in a second one
set_alarm_hours_mut(m, hours, f) ==
    IF hours > 23 THEN [m |-> m, r |-> ErrInvalidInputData]
    ELSE LET rd == read_register(m, HOUR_ALARM, f)
         IN  IF rd.r.kind # "Ok" THEN rd
             ELSE LET kept    == BitAnd(rd.r.val, AE)
                      setting == encode_bcd(hours)
                      w1      == write_register(rd.m, HOUR_ALARM, kept, f)
                  IN  IF w1.r.kind # "Ok" THEN w1
                      ELSE write_register(w1.m, HOUR_ALARM, BitOr(kept, setting), f)

set_alarm_hours(m, hours, f) ==
    IF hours > 23 THEN [m |-> m, r |-> ErrInvalidInputData]
    ELSE LET rd == read_register(m, HOUR_ALARM, f)
         IN  IF rd.r.kind # "Ok" THEN rd
             ELSE LET kept    == BitAnd(rd.r.val, AE)
                      setting == encode_bcd(hours)
                      data    == BitOr(kept, setting)
                  IN  write_register(rd.m, HOUR_ALARM, data, f)

\* set_alarm_day that only tests the upper end of the range
set_alarm_day_mut(m, day, f) ==
    IF day > 31 THEN [m |-> m, r |-> ErrInvalidInputData]
    ELSE LET rd == read_register(m, DAY_ALARM, f)
         IN  IF rd.r.kind # "Ok" THEN rd
             ELSE LET kept    == BitAnd(rd.r.val, AE)
                      setting == encode_bcd(day)
                      data    == BitOr(kept, setting)
                  IN  write_register(rd.m, DAY_ALARM, data, f)

set_alarm_day(m, day, f) ==
    IF ~(day >= 1 /\ day <= 31) THEN [m |-> m, r |-> ErrInvalidInputData]
    ELSE LET rd == read_register(m, DAY_ALARM, f)
         IN  IF rd.r.kind # "Ok" THEN rd
             ELSE LET kept    == BitAnd(rd.r.val, AE)
                      setting == encode_bcd(day)
                      data    == BitOr(kept, setting)
                  IN  write_register(rd.m, DAY_ALARM, data, f)

set_alarm_weekday(m, weekday, f) ==
    IF weekday > 6 THEN [m |-> m, r |-> ErrInvalidInputData]
    ELSE LET rd == read_register(m, WEEKDAY_ALARM, f)
         IN  IF rd.r.kind # "Ok" THEN rd
             ELSE LET kept    == BitAnd(rd.r.val, AE)
                      setting == encode_bcd(weekday)
                      data    == BitOr(kept, setting)
                  IN  write_register(rd.m, WEEKDAY_ALARM, data, f)

\* set_alarm_time that drops the result of set_alarm_seconds
set_alarm_time_mut(m, time, f) ==
    LET s  == set_alarm_seconds(m, time.seconds, f)
        mi == set_alarm_minutes(s.m, time.minutes, f)
    IN  IF mi.r.kind # "Ok" THEN mi
        ELSE LET h == set_alarm_hours(mi.m, time.hours, f)
             IN  IF h.r.kind # "Ok" THEN h
                 ELSE [m |-> h.m, r |-> OkUnit]

set_alarm_time(m, time, f) ==
    LET s == set_alarm_seconds(m, time.seconds, f)
    IN  IF s.r.kind # "Ok" THEN s
        ELSE LET mi == set_alarm_minutes(s.m, time.minutes, f)
             IN  IF mi.r.kind # "Ok" THEN mi
                 ELSE LET h == set_alarm_hours(mi.m, time.hours, f)
                      IN  IF h.r.kind # "Ok" THEN h
                          ELSE [m |-> h.m, r |-> OkUnit]

(***************************************************************************)
(* Alarm fields: enable control (AE = 0 means the field takes part in the  *)
(* alarm) and enable query                                                 *)
(***************************************************************************)
control_alarm_seconds(m, status, f) ==
    IF status = "Off"
    THEN set_register_bit_flag(m, SECOND_ALARM, AE, f)
    ELSE clear_register_bit_flag(m, SECOND_ALARM, AE, f)

is_alarm_seconds_enabled(m, f) ==
    LET q == is_register_bit_flag_high(m, SECOND_ALARM, AE, f)
    IN  IF q.r.kind # "Ok" THEN q
        ELSE [m |-> q.m, r |-> OkBool(~q.r.flag)]

\* control_alarm_minutes with On and Off mapped to the bit directly
control_alarm_minutes_mut(m, status, f) ==
    IF status = "On"
    THEN set_register_bit_flag(m, MINUTE_ALARM, AE, f)
    ELSE clear_register_bit_flag(m, MINUTE_ALARM, AE, f)

control_alarm_minutes(m, status, f) ==
    IF status = "Off"
    THEN set_register_bit_flag(m, MINUTE_ALARM, AE, f)
    ELSE clear_register_bit_flag(m, MINUTE_ALARM, AE, f)

is_alarm_minutes_enabled(m, f) ==
    LET q == is_register_bit_flag_high(m, MINUTE_ALARM, AE, f)
    IN  IF q.r.kind # "Ok" THEN q
        ELSE [m |-> q.m, r |-> OkBool(~q.r.flag)]

control_alarm_hours(m, status, f) ==
    IF status = "Off"
    THEN set_register_bit_flag(m, HOUR_ALARM, AE, f)
    ELSE clear_register_bit_flag(m, HOUR_ALARM, AE, f)

is_alarm_hours_enabled(m, f) ==
    LET q == is_register_bit_flag_high(m, HOUR_ALARM, AE, f)
    IN  IF q.r.kind # "Ok" THEN q
        ELSE [m |-> q.m, r |-> OkBool(~q.r.flag)]

control_alarm_day(m, status, f) ==
    IF status = "Off"
    THEN set_register_bit_flag(m, DAY_ALARM, AE, f)
    ELSE clear_register_bit_flag(m, DAY_ALARM, AE, f)

is_alarm_day_enabled(m, f) ==
    LET q == is_register_bit_flag_high(m, DAY_ALARM, AE, f)
    IN  IF q.r.kind # "Ok" THEN q
        ELSE [m |-> q.m, r |-> OkBool(~q.r.flag)]

control_alarm_weekday(m, status, f) ==
    IF status = "Off"
    THEN set_register_bit_flag(m, WEEKDAY_ALARM, AE, f)
    ELSE clear_register_bit_flag(m, WEEKDAY_ALARM, AE, f)

is_alarm_weekday_enabled(m, f) ==
    LET q == is_register_bit_flag_high(m, WEEKDAY_ALARM, AE, f)
    IN  IF q.r.kind # "Ok" THEN q
        ELSE [m |-> q.m, r |-> OkBool(~q.r.flag)]

\* disable_all_alarms that leaves out the weekday field
disable_all_alarms_mut(m, f) ==
    LET s == control_alarm_seconds(m, "Off", f)
    IN  IF s.r.kind # "Ok" THEN s
        ELSE LET mi == control_alarm_minutes(s.m, "Off", f)
             IN  IF mi.r.kind # "Ok" THEN mi
                 ELSE LET h == control_alarm_hours(mi.m, "Off", f)
                      IN  IF h.r.kind # "Ok" THEN h
                          ELSE LET d == control_alarm_day(h.m, "Off", f)
                               IN  IF d.r.kind # "Ok" THEN d
                                   ELSE [m |-> d.m, r |-> OkUnit]

disable_all_alarms(m, f) ==
    LET s == control_alarm_seconds(m, "Off", f)
    IN  IF s.r.kind # "Ok" THEN s
        ELSE LET mi == control_alarm_minutes(s.m, "Off", f)
             IN  IF mi.r.kind # "Ok" THEN mi
                 ELSE LET h == control_alarm_hours(mi.m, "Off", f)
                      IN  IF h.r.kind # "Ok" THEN h
                          ELSE LET d == control_alarm_day(h.m, "Off", f)
                               IN  IF d.r.kind # "Ok" THEN d
                                   ELSE LET w == control_alarm_weekday(d.m, "Off", f)
                                        IN  IF w.r.kind # "Ok" THEN w
                                            ELSE [m |-> w.m, r |-> OkUnit]

(***************************************************************************)
(* Alarm interrupt enable (AIE) and alarm flag (AF) in CONTROL_2           *)
(***************************************************************************)
\* control_alarm_interrupt with the inverted mapping of the alarm fields
control_alarm_interrupt_mut(m, status, f) ==
    IF status = "Off"
    THEN set_register_bit_flag(m, CONTROL_2, AIE, f)
    ELSE clear_register_bit_flag(m, CONTROL_2, AIE, f)

control_alarm_interrupt(m, status, f) ==
    IF status = "On"
    THEN set_register_bit_flag(m, CONTROL_2, AIE, f)
    ELSE clear_register_bit_flag(m, CONTROL_2, AIE, f)

get_alarm_flag(m, f) == is_register_bit_flag_high(m, CONTROL_2, AF, f)

\* clear_alarm_flag that clears the bit at the AIE position
clear_alarm_flag_mut(m, f) == clear_register_bit_flag(m, CONTROL_2, AIE, f)

clear_alarm_flag(m, f) == clear_register_bit_flag(m, CONTROL_2, AF, f)

is_alarm_interrupt_enabled(m, f) == is_register_bit_flag_high(m, CONTROL_2, AIE, f)

(***************************************************************************)
(* Alarm fields: getters                                                   *)
(***************************************************************************)
\* get_alarm_seconds decoding the whole upper nibble as the tens digit
get_alarm_seconds_mut(m, f) ==
    LET t == i2c_write_read(m, <<SECOND_ALARM>>, 1, f)
    IN  IF t.r.kind # "Ok" THEN [m |-> t.m, r |-> t.r]
        ELSE [m |-> t.m, r |-> OkByte(decode_bcd_nibble(t.data[1]))]

get_alarm_seconds(m, f) ==
    LET t == i2c_write_read(m, <<SECOND_ALARM>>, 1, f)
    IN  IF t.r.kind # "Ok" THEN [m |-> t.m, r |-> t.r]
        ELSE [m |-> t.m, r |-> OkByte(decode_bcd(t.data[1]))]

get_alarm_minutes(m, f) ==
    LET t == i2c_write_read(m, <<MINUTE_ALARM>>, 1, f)
    IN  IF t.r.kind # "Ok" THEN [m |-> t.m, r |-> t.r]
        ELSE [m |-> t.m, r |-> OkByte(decode_bcd(t.data[1]))]

get_alarm_hours(m, f) ==
    LET t == i2c_write_read(m, <<HOUR_ALARM>>, 1, f)
    IN  IF t.r.kind # "Ok" THEN [m |-> t.m, r |-> t.r]
        ELSE [m |-> t.m, r |-> OkByte(decode_bcd(t.data[1]))]

get_alarm_day(m, f) ==
    LET t == i2c_write_read(m, <<DAY_ALARM>>, 1, f)
    IN  IF t.r.kind # "Ok" THEN [m |-> t.m, r |-> t.r]
        ELSE [m |-> t.m, r |-> OkByte(decode_bcd(t.data[1]))]

get_alarm_weekday(m, f) ==
    LET t == i2c_write_read(m, <<WEEKDAY_ALARM>>, 1, f)
    IN  IF t.r.kind # "Ok" THEN [m |-> t.m, r |-> t.r]
        ELSE [m |-> t.m, r |-> OkByte(decode_bcd(t.data[1]))]

(***************************************************************************)
(* Alarm actions                                                           *)
(***************************************************************************)
Controls == {"On", "Off"}

\* time::Time values are always in range
AlarmTimes ==
    {BaseTime,
     [hours |-> 0, minutes |-> 0, seconds |-> 0],
     [hours |-> 23, minutes |-> 59, seconds |-> 59]}

SetAlarmSeconds ==
    \E v \in {0, 23, 59, 60, 255}, f \in Faults(2) :
        /\ CanCall
        /\ Finish([NoOp EXCEPT !.name = "set_alarm_seconds", !.reg = SECOND_ALARM, !.val = v],
                  set_alarm_seconds(Machine(regs), v, f))

ControlAlarmSeconds ==
    \E status \in Controls, f \in Faults(2) :
        /\ CanCall
        /\ Finish([NoOp EXCEPT !.name = "control_alarm_seconds", !.reg = SECOND_ALARM,
                                !.status = status],
                  control_alarm_seconds(Machine(regs), status, f))

IsAlarmSecondsEnabled ==
    \E f \in Faults(1) :
        /\ CanCall
        /\ Finish([NoOp EXCEPT !.name = "is_alarm_seconds_enabled", !.reg = SECOND_ALARM],
                  is_alarm_seconds_enabled(Machine(regs), f))

SetAlarmMinutes ==
    \E v \in {0, 59, 60}, f \in Faults(2) :
        /\ CanCall
        /\ Finish([NoOp EXCEPT !.name = "set_alarm_minutes", !.reg = MINUTE_ALARM, !.val = v],
                  set_alarm_minutes(Machine(regs), v, f))

ControlAlarmMinutes ==
    \E status \in Controls, f \in Faults(2) :
        /\ CanCall
        /\ Finish([NoOp EXCEPT !.name = "control_alarm_minutes", !.reg = MINUTE_ALARM,
                                !.status = status],
                  control_alarm_minutes(Machine(regs), status, f))

IsAlarmMinutesEnabled ==
    \E f \in Faults(1) :
        /\ CanCall
        /\ Finish([NoOp EXCEPT !.name = "is_alarm_minutes_enabled", !.reg = MINUTE_ALARM],
                  is_alarm_minutes_enabled(Machine(regs), f))

SetAlarmHours ==
    \E v \in {0, 23, 24}, f \in Faults(2) :
        /\ CanCall
        /\ Finish([NoOp EXCEPT !.name = "set_alarm_hours", !.reg = HOUR_ALARM, !.val = v],
                  set_alarm_hours(Machine(regs), v, f))

ControlAlarmHours ==
    \E status \in Controls, f \in Faults(2) :
        /\ CanCall
        /\ Finish([NoOp EXCEPT !.name = "control_alarm_hours", !.reg = HOUR_ALARM,
                                !.status = status],
                  control_alarm_hours(Machine(regs), status, f))

IsAlarmHoursEnabled ==
    \E f \in Faults(1) :
        /\ CanCall
        /\ Finish([NoOp EXCEPT !.name = "is_alarm_hours_enabled", !.reg = HOUR_ALARM],
                  is_alarm_hours_enabled(Machine(regs), f))

SetAlarmDay ==
    \E v \in {0, 1, 31, 32}, f \in Faults(2) :
        /\ CanCall
        /\ Finish([NoOp EXCEPT !.name = "set_alarm_day", !.reg = DAY_ALARM, !.val = v],
                  set_alarm_day(Machine(regs), v, f))

ControlAlarmDay ==
    \E status \in Controls, f \in Faults(2) :
        /\ CanCall
        /\ Finish([NoOp EXCEPT !.name = "control_alarm_day", !.reg = DAY_ALARM,
                                !.status = status],
                  control_alarm_day(Machine(regs), status, f))

IsAlarmDayEnabled ==
    \E f \in Faults(1) :
        /\ CanCall
        /\ Finish([NoOp EXCEPT !.name = "is_alarm_day_enabled", !.reg = DAY_ALARM],
                  is_alarm_day_enabled(Machine(regs), f))

SetAlarmWeekday ==
    \E v \in {0, 6, 7}, f \in Faults(2) :
        /\ CanCall
        /\ Finish([NoOp EXCEPT !.name = "set_alarm_weekday", !.reg = WEEKDAY_ALARM, !.val = v],
                  set_alarm_weekday(Machine(regs), v, f))

ControlAlarmWeekday ==
    \E status \in Controls, f \in Faults(2) :
        /\ CanCall
        /\ Finish([NoOp EXCEPT !.name = "control_alarm_weekday", !.reg = WEEKDAY_ALARM,
                                !.status = status],
                  control_alarm_weekday(Machine(regs), status, f))

IsAlarmWeekdayEnabled ==
    \E f \in Faults(1) :
        /\ CanCall
        /\ Finish([NoOp EXCEPT !.name = "is_alarm_weekday_enabled", !.reg = WEEKDAY_ALARM],
                  is_alarm_weekday_enabled(Machine(regs), f))

SetAlarmTime ==
    \E t \in AlarmTimes, f \in Faults(6) :
        /\ CanCall
        /\ Finish([NoOp EXCEPT !.name = "set_alarm_time", !.time = t],
                  set_alarm_time(Machine(regs), t, f))

DisableAllAlarms ==
    \E f \in Faults(10) :
        /\ CanCall
        /\ Finish([NoOp EXCEPT !.name = "disable_all_alarms"],
                  disable_all_alarms(Machine(regs), f))

ControlAlarmInterrupt ==
    \E status \in Controls, f \in Faults(2) :
        /\ CanCall
        /\ Finish([NoOp EXCEPT !.name = "control_alarm_interrupt", !.reg = CONTROL_2,
                                !.status = status],
                  control_alarm_interrupt(Machine(regs), status, f))

GetAlarmFlag ==
    \E f \in Faults(1) :
        /\ CanCall
        /\ Finish([NoOp EXCEPT !.name = "get_alarm_flag", !.reg = CONTROL_2],
                  get_alarm_flag(Machine(regs), f))

ClearAlarmFlag ==
    \E f \in Faults(2) :
        /\ CanCall
        /\ Finish([NoOp EXCEPT !.name = "clear_alarm_flag", !.reg = CONTROL_2],
                  clear_alarm_flag(Machine(regs), f))

IsAlarmInterruptEnabled ==
    \E f \in Faults(1) :
        /\ CanCall
        /\ Finish([NoOp EXCEPT !.name = "is_alarm_interrupt_enabled", !.reg = CONTROL_2],
                  is_alarm_interrupt_enabled(Machine(regs), f))

GetAlarmSeconds ==
    \E f \in Faults(1) :
        /\ CanCall
        /\ Finish([NoOp EXCEPT !.name = "get_alarm_seconds", !.reg = SECOND_ALARM],
                  get_alarm_seconds(Machine(regs), f))

GetAlarmMinutes ==
    \E f \in Faults(1) :
        /\ CanCall
        /\ Finish([NoOp EXCEPT !.name = "get_alarm_minutes", !.reg = MINUTE_ALARM],
                  get_alarm_minutes(Machine(regs), f))

GetAlarmHours ==
    \E f \in Faults(1) :
        /\ CanCall
        /\ Finish([NoOp EXCEPT !.name = "get_alarm_hours", !.reg = HOUR_ALARM],
                  get_alarm_hours(Machine(regs), f))

GetAlarmDay ==
    \E f \in Faults(1) :
        /\ CanCall
        /\ Finish([NoOp EXCEPT !.name = "get_alarm_day", !.reg = DAY_ALARM],
                  get_alarm_day(Machine(regs), f))

GetAlarmWeekday ==
    \E f \in Faults(1) :
        /\ CanCall
        /\ Finish([NoOp EXCEPT !.name = "get_alarm_weekday", !.reg = WEEKDAY_ALARM],
                  get_alarm_weekday(Machine(regs), f))

NextAlarm ==
    \/ SetAlarmSeconds
    \/ ControlAlarmSeconds
    \/ IsAlarmSecondsEnabled
    \/ SetAlarmMinutes
    \/ ControlAlarmMinutes
    \/ IsAlarmMinutesEnabled
    \/ SetAlarmHours
    \/ ControlAlarmHours
    \/ IsAlarmHoursEnabled
    \/ SetAlarmDay
    \/ ControlAlarmDay
    \/ IsAlarmDayEnabled
    \/ SetAlarmWeekday
    \/ ControlAlarmWeekday
    \/ IsAlarmWeekdayEnabled
    \/ SetAlarmTime
    \/ DisableAllAlarms
    \/ ControlAlarmInterrupt
    \/ GetAlarmFlag
    \/ ClearAlarmFlag
    \/ IsAlarmInterruptEnabled
    \/ GetAlarmSeconds
    \/ GetAlarmMinutes
    \/ GetAlarmHours
    \/ GetAlarmDay
    \/ GetAlarmWeekday

SpecAlarm == Init /\ [][NextAlarm]_vars

(***************************************************************************)
(* The bus accessor called directly (all five functions are public)        *)
(***************************************************************************)
BusRegisters == {CONTROL_1, CONTROL_2, SECOND_ALARM}

BusMasks == {STOP, COF, AF, AIE}

WriteRegister ==
    \E a \in BusRegisters, b \in SampleBytes, f \in Faults(1) :
        /\ CanCall
        /\ Finish([NoOp EXCEPT !.name = "write_register", !.reg = a, !.val = b],
                  write_register(Machine(regs), a, b, f))

ReadRegister ==
    \E a \in BusRegisters, f \in Faults(1) :
        /\ CanCall
        /\ Finish([NoOp EXCEPT !.name = "read_register", !.reg = a],
                  read_register(Machine(regs), a, f))

IsRegisterBitFlagHigh ==
    \E a \in BusRegisters, mask \in BusMasks, f \in Faults(1) :
        /\ CanCall
        /\ Finish([NoOp EXCEPT !.name = "is_register_bit_flag_high",
                                !.reg = a, !.val = mask],
                  is_register_bit_flag_high(Machine(regs), a, mask, f))

SetRegisterBitFlag ==
    \E a \in BusRegisters, mask \in BusMasks, f \in Faults(2) :
        /\ CanCall
        /\ Finish([NoOp EXCEPT !.name = "set_register_bit_flag",
                                !.reg = a, !.val = mask],
                  set_register_bit_flag(Machine(regs), a, mask, f))

ClearRegisterBitFlag ==
    \E a \in BusRegisters, mask \in BusMasks, f \in Faults(2) :
        /\ CanCall
        /\ Finish([NoOp EXCEPT !.name = "clear_register_bit_flag",
                                !.reg = a, !.val = mask],
                  clear_register_bit_flag(Machine(regs), a, mask, f))

NextBus ==
    \/ WriteRegister
    \/ ReadRegister
    \/ IsRegisterBitFlagHigh
    \/ SetRegisterBitFlag
    \/ ClearRegisterBitFlag

SpecBus == Init /\ [][NextBus]_vars

(***************************************************************************)
(* Properties of the alarm subsystem and of the bus accessor               *)
(***************************************************************************)
AlarmSetters ==
    {"set_alarm_seconds", "set_alarm_minutes", "set_alarm_hours",
     "set_alarm_day", "set_alarm_weekday"}

AlarmControls ==
    {"control_alarm_seconds", "control_alarm_minutes", "control_alarm_hours",
     "control_alarm_day", "control_alarm_weekday"}

\* the documented range of each alarm field
AlarmValueInRange(reg, v) ==
    CASE reg = SECOND_ALARM  -> v <= 59
      [] reg = MINUTE_ALARM  -> v <= 59
      [] reg = HOUR_ALARM    -> v <= 23
      [] reg = DAY_ALARM     -> v >= 1 /\ v <= 31
      [] reg = WEEKDAY_ALARM -> v <= 6

\* what is_alarm_<field>_enabled returns on the current registers
EnabledQuery(reg) ==
    CASE reg = SECOND_ALARM  -> is_alarm_seconds_enabled(Machine(regs), NoFault).r
      [] reg = MINUTE_ALARM  -> is_alarm_minutes_enabled(Machine(regs), NoFault).r
      [] reg = HOUR_ALARM    -> is_alarm_hours_enabled(Machine(regs), NoFault).r
      [] reg = DAY_ALARM     -> is_alarm_day_enabled(Machine(regs), NoFault).r
      [] reg = WEEKDAY_ALARM -> is_alarm_weekday_enabled(Machine(regs), NoFault).r

\* C5: a successful alarm setter keeps bit 7 (AE) of the field's register
\* and replaces the low 7 bits by the BCD encoding of the new value.
C5_SetAlarmKeepsAE ==
    (op.name \in AlarmSetters /\ result.kind = "Ok") =>
        /\ AlarmValueInRange(op.reg, op.val)
        /\ BitAnd(regs[op.reg], AE) = BitAnd(pre[op.reg], AE)
        /\ BitAnd(regs[op.reg], 127) = encode_bcd(op.val)
        /\ decode_bcd(regs[op.reg]) = op.val

C5_Witness ==
    /\ op.name = "set_alarm_seconds" /\ op.val = 23 /\ result.kind = "Ok"
    /\ pre[SECOND_ALARM] = 255
    /\ regs[SECOND_ALARM] = 163

\* C6: an alarm setter called with an out-of-range value returns
\* InvalidInputData before any bus transaction; no register changes.
C6_SetAlarmRejectsOutOfRange ==
    (op.name \in AlarmSetters /\ ~AlarmValueInRange(op.reg, op.val)) =>
        (result = ErrInvalidInputData /\ txns = <<>> /\ regs = pre)

C6_Witness ==
    /\ op.name = "set_alarm_day" /\ op.val = 0
    /\ result.kind = "InvalidInputData" /\ txns = <<>>

\* C7: after a successful control_alarm_<field>(On) the field's
\* is_alarm_<field>_enabled returns true, after a successful
\* control_alarm_<field>(Off) it returns false.
C7_ControlThenQuery ==
    (op.name \in AlarmControls /\ result.kind = "Ok") =>
        EnabledQuery(op.reg) = OkBool(op.status = "On")

C7_Witness ==
    /\ op.name = "control_alarm_minutes" /\ op.status = "On" /\ result.kind = "Ok"
    /\ BitAnd(pre[MINUTE_ALARM], AE) = AE
    /\ Len(txns) = 2
    /\ EnabledQuery(MINUTE_ALARM) = OkBool(TRUE)

\* C8: after disable_all_alarms returns Ok all five is_alarm_<field>_enabled
\* queries return false.
C8_DisableAllDisablesAll ==
    (op.name = "disable_all_alarms" /\ result.kind = "Ok") =>
        \A reg \in AlarmRegisters : EnabledQuery(reg) = OkBool(FALSE)

C8_Witness ==
    /\ op.name = "disable_all_alarms" /\ result.kind = "Ok"
    /\ \A reg \in AlarmRegisters : BitAnd(pre[reg], AE) = 0
    /\ Len(txns) = 10
    /\ \A reg \in AlarmRegisters : EnabledQuery(reg) = OkBool(FALSE)

\* C9: when the register read inside set_register_bit_flag or
\* clear_register_bit_flag fails, the call returns the bus error with the
\* transport's error value, issues no write and leaves the registers alone.
C9_ReadFailureAborts ==
    (/\ op.name \in {"set_register_bit_flag", "clear_register_bit_flag"}
     /\ txns # <<>>
     /\ ~txns[1].ok) =>
        /\ result = ErrI2C(txns[1].err)
        /\ Len(txns) = 1
        /\ txns[1].kind = "write_read"
        /\ regs = pre

C9_Witness ==
    /\ op.name = "set_register_bit_flag" /\ op.reg = CONTROL_1 /\ op.val = STOP
    /\ BitAnd(pre[CONTROL_1], STOP) = 0
    /\ txns # <<>> /\ ~txns[1].ok
    /\ result = ErrI2C("ArbitrationLoss")

\* the registers a composite operation goes through, in ascending order
CompositeFields ==
    IF op.name = "set_alarm_time"
    THEN {SECOND_ALARM, MINUTE_ALARM, HOUR_ALARM}
    ELSE AlarmRegisters

\* the byte a composite operation leaves in a field it has gone through
CompositeApplied(reg) ==
    IF op.name = "set_alarm_time"
    THEN BitOr(BitAnd(pre[reg], AE),
               encode_bcd(CASE reg = SECOND_ALARM -> op.time.seconds
                            [] reg = MINUTE_ALARM -> op.time.minutes
                            [] reg = HOUR_ALARM   -> op.time.hours))
    ELSE BitOr(pre[reg], AE)

FailedTxns == {i \in 1..Len(txns) : ~txns[i].ok}

\* C10: when the sub-operation of field k fails inside set_alarm_time or
\* disable_all_alarms, the composite returns that error, issues nothing
\* for a later field, leaves the fields before k applied and the fields
\* after k (and every other register) unchanged.
C10_CompositeStopsAtFirstError ==
    (op.name \in {"set_alarm_time", "disable_all_alarms"} /\ FailedTxns # {}) =>
        LET last == txns[Len(txns)]
            k    == last.bytes[1]
        IN  /\ FailedTxns = {Len(txns)}
            /\ result = ErrI2C(last.err)
            /\ k \in CompositeFields
            /\ \A i \in 1..Len(txns) : txns[i].bytes[1] <= k
            /\ \A reg \in CompositeFields : reg < k => regs[reg] = CompositeApplied(reg)
            /\ \A reg \in Registers : reg > k => regs[reg] = pre[reg]
            /\ \A reg \in Registers \ AlarmRegisters : regs[reg] = pre[reg]

C10_Witness ==
    /\ op.name = "disable_all_alarms" /\ result.kind = "I2C"
    /\ txns[Len(txns)].bytes[1] = HOUR_ALARM
    /\ regs[SECOND_ALARM] # pre[SECOND_ALARM]
    /\ regs[MINUTE_ALARM] # pre[MINUTE_ALARM]
    /\ regs[DAY_ALARM] = pre[DAY_ALARM]

(***************************************************************************)
(* Properties of the date and time bursts                                  *)
(***************************************************************************)
\* C11: a successful set_time issues exactly one burst write
\* [SECONDS, sec_bcd, min_bcd, hour_bcd] and changes only the SECONDS,
\* MINUTES and HOURS registers.
C11_SetTimeBurst ==
    (op.name = "set_time" /\ result.kind = "Ok") =>
        /\ Len(txns) = 1
        /\ txns[1].kind = "write"
        /\ txns[1].ok
        /\ txns[1].address = DEVICE_ADDRESS
        /\ txns[1].bytes = <<SECONDS, encode_bcd(op.time.seconds),
                             encode_bcd(op.time.minutes), encode_bcd(op.time.hours)>>
        /\ regs[SECONDS] = encode_bcd(op.time.seconds)
        /\ regs[MINUTES] = encode_bcd(op.time.minutes)
        /\ regs[HOURS] = encode_bcd(op.time.hours)
        /\ \A a \in Registers \ {SECONDS, MINUTES, HOURS} : regs[a] = pre[a]

C11_Witness ==
    /\ op.name = "set_time" /\ op.time = BaseTime /\ result.kind = "Ok"
    /\ pre[DAYS] = 255 /\ regs[DAYS] = 255
    /\ regs[SECONDS] = 69 /\ regs[MINUTES] = 48 /\ regs[HOURS] = 18

\* C12: set_datetime accepts every in-range DateTime and issues exactly one
\* bus transaction for it, the 8-byte write [0x04, bcd(seconds),
\* bcd(minutes), bcd(hours), bcd(day), bcd(weekday), bcd(month), bcd(year)].
C12_SetDatetimeBurst ==
    (op.name = "set_datetime" /\ DateTimeInRange(op.dt)) =>
        /\ result.kind # "InvalidInputData"
        /\ Len(txns) = 1
        /\ txns[1].kind = "write"
        /\ txns[1].address = DEVICE_ADDRESS
        /\ txns[1].bytes = <<4, encode_bcd(op.dt.seconds), encode_bcd(op.dt.minutes),
                             encode_bcd(op.dt.hours), encode_bcd(op.dt.day),
                             encode_bcd(op.dt.weekday), encode_bcd(op.dt.month),
                             encode_bcd(op.dt.year)>>
        /\ txns[1].ok => result = OkUnit

C12_Witness ==
    /\ op.name = "set_datetime" /\ op.dt = DateTime_default /\ result.kind = "Ok"
    /\ txns = <<[kind |-> "write", address |-> 81, bytes |-> <<4, 0, 0, 0, 1, 6, 1, 0>>,
                 nread |-> 0, ok |-> TRUE, err |-> "None"]>>

(***************************************************************************)
(* Properties of the codec, bit by bit                                     *)
(***************************************************************************)
\* C13: for every byte b, decode_bcd(b) = 10 * ((b >> 4) & 7) + (b & 15);
\* bit 7 never contributes, so decode_bcd(b) = decode_bcd(b & 127).
C13_DecodeSevenBits ==
    (op.name = "decode_bcd") =>
        /\ result.val = 10 * ((op.val \div 16) % 8) + (op.val % 16)
        /\ result.val = decode_bcd(op.val % 128)

C13_Witness ==
    op.name = "decode_bcd" /\ op.val = 217 /\ result.val = 59

\* C14: for every v in 0..99, encode_bcd(v) = ((v / 10) << 4) | (v % 10);
\* the sum the code computes equals the bitwise OR.
C14_EncodeNibbles ==
    (op.name = "encode_bcd" /\ op.val <= 99) =>
        /\ result.val = BitOr(Shl(op.val \div 10, 4), op.val % 10)
        /\ result.val \div 16 = op.val \div 10
        /\ result.val % 16 = op.val % 10

C14_Witness ==
    op.name = "encode_bcd" /\ op.val = 59 /\ result.val = 89

(***************************************************************************)
(* Properties of the read-modify-write primitives                          *)
(***************************************************************************)
\* the write the last call issued after its read, if any
WroteBack(data) ==
    /\ Len(txns) = 2
    /\ txns[2].kind = "write"
    /\ txns[2].bytes = <<op.reg, data>>

\* C15: set_register_bit_flag(addr, m) on a register holding d reads once
\* and writes d | m if and only if d & m # m; after a successful call every
\* bit of m is set.
C15_SetWritesUnlessAllSet ==
    (op.name = "set_register_bit_flag" /\ txns # <<>> /\ txns[1].ok) =>
        LET d == pre[op.reg]
            m == op.val
        IN  /\ txns[1].kind = "write_read"
            /\ txns[1].bytes = <<op.reg>>
            /\ (BitAnd(d, m) # m) <=> WroteBack(BitOr(d, m))
            /\ (BitAnd(d, m) = m) => Len(txns) = 1
            /\ (result.kind = "Ok") => BitAnd(regs[op.reg], m) = m

\* C16: clear_register_bit_flag(addr, m) on a register holding d reads once
\* and writes d & !m if and only if d & m # 0; after a successful call
\* every bit of m is clear and every other bit is unchanged.
C16_ClearWritesIfAnySet ==
    (op.name = "clear_register_bit_flag" /\ txns # <<>> /\ txns[1].ok) =>
        LET d == pre[op.reg]
            m == op.val
        IN  /\ txns[1].kind = "write_read"
            /\ txns[1].bytes = <<op.reg>>
            /\ (BitAnd(d, m) # 0) <=> WroteBack(BitAnd(d, BitNot(m)))
            /\ (BitAnd(d, m) = 0) => Len(txns) = 1
            /\ (result.kind = "Ok") =>
                   /\ BitAnd(regs[op.reg], m) = 0
                   /\ BitAnd(regs[op.reg], BitNot(m)) = BitAnd(d, BitNot(m))
                   /\ \A a \in Registers \ {op.reg} : regs[a] = pre[a]

C16_Witness ==
    /\ op.name = "clear_register_bit_flag" /\ op.reg = CONTROL_2 /\ op.val = COF
    /\ result.kind = "Ok"
    /\ pre[CONTROL_2] = 165
    /\ regs[CONTROL_2] = 160
    /\ Len(txns) = 2

(***************************************************************************)
(* Clock output frequency                                                  *)
(***************************************************************************)
\* OutputFrequency as its bits, Hz32768 = 0b000 .. Hz0 = 0b111
OutputFrequencies == 0..7

read_clock_output_frequency(m, f) ==
    LET rd == read_register(m, CONTROL_2, f)
    IN  IF rd.r.kind # "Ok" THEN rd
        ELSE [m |-> rd.m, r |-> OkByte(BitAnd(rd.r.val, COF))]

\* write_clock_output_frequency that writes the frequency bits alone
write_clock_output_frequency_mut(m, freq, f) ==
    LET rd == read_register(m, CONTROL_2, f)
    IN  IF rd.r.kind # "Ok" THEN rd
        ELSE write_register(rd.m, CONTROL_2, freq, f)

write_clock_output_frequency(m, freq, f) ==
    LET rd == read_register(m, CONTROL_2, f)
    IN  IF rd.r.kind # "Ok" THEN rd
        ELSE LET value   == rd.r.val
                 cleared == BitXor(value, COF)
                 set     == BitOr(cleared, freq)
             IN  write_register(rd.m, CONTROL_2, set, f)

ReadClockOutputFrequency ==
    \E f \in Faults(1) :
        /\ CanCall
        /\ Finish([NoOp EXCEPT !.name = "read_clock_output_frequency",
                                !.reg = CONTROL_2],
                  read_clock_output_frequency(Machine(regs), f))

WriteClockOutputFrequency ==
    \E freq \in OutputFrequencies, f \in Faults(2) :
        /\ CanCall
        /\ Finish([NoOp EXCEPT !.name = "write_clock_output_frequency",
                                !.reg = CONTROL_2, !.val = freq],
                  write_clock_output_frequency(Machine(regs), freq, f))

NextClock == ReadClockOutputFrequency \/ WriteClockOutputFrequency

SpecClock == Init /\ [][NextClock]_vars

\* C17: a successful write_clock_output_frequency(f) replaces the COF
\* field: afterwards CONTROL_2 & 0b111 = f.bits() and
\* read_clock_output_frequency returns f.
C17_WriteReplacesCOF ==
    (op.name = "write_clock_output_frequency" /\ result.kind = "Ok") =>
        /\ BitAnd(regs[CONTROL_2], 7) = op.val
        /\ read_clock_output_frequency(Machine(regs), NoFault).r = OkByte(op.val)

\* C18: write_clock_output_frequency changes only bits 0-2 of CONTROL_2:
\* bits 3-7 keep their values and no other register is written.
C18_WriteKeepsOtherBits ==
    (op.name = "write_clock_output_frequency") =>
        /\ BitAnd(regs[CONTROL_2], 248) = BitAnd(pre[CONTROL_2], 248)
        /\ \A a \in Registers \ {CONTROL_2} : regs[a] = pre[a]
        /\ \A i \in 1..Len(txns) : txns[i].bytes[1] = CONTROL_2

C18_Witness ==
    /\ op.name = "write_clock_output_frequency" /\ op.val = 2
    /\ result.kind = "Ok"
    /\ pre[CONTROL_2] = 165
    /\ regs[CONTROL_2] # pre[CONTROL_2]
    /\ BitAnd(regs[CONTROL_2], 248) = 160

(***************************************************************************)
(* Properties of the enable bits and of the alarm flag                     *)
(***************************************************************************)
\* C19: a successful control_alarm_<field>(On) leaves AE (bit 7 of the
\* field's alarm register) 0 and Off leaves it 1, the low 7 bits unchanged;
\* a successful control_alarm_interrupt(On) leaves AIE (bit 7 of CONTROL_2)
\* set and Off leaves it clear.
C19_OnOffBitMapping ==
    /\ (op.name \in AlarmControls /\ result.kind = "Ok") =>
           /\ BitAnd(regs[op.reg], AE) = (IF op.status = "On" THEN 0 ELSE 128)
           /\ BitAnd(regs[op.reg], 127) = BitAnd(pre[op.reg], 127)
    /\ (op.name = "control_alarm_interrupt" /\ result.kind = "Ok") =>
           BitAnd(regs[CONTROL_2], 128) = (IF op.status = "On" THEN 128 ELSE 0)

C19_Witness ==
    /\ op.name = "control_alarm_weekday" /\ op.status = "On" /\ result.kind = "Ok"
    /\ pre[WEEKDAY_ALARM] = 165
    /\ regs[WEEKDAY_ALARM] = 37

\* C20: clear_alarm_flag changes at most the AF bit (bit 6) of CONTROL_2,
\* control_alarm_interrupt changes at most the AIE bit (bit 7) of
\* CONTROL_2, and neither writes any of the alarm registers 0x0B..0x0F.
C20_FlagAndInterruptDisjoint ==
    (op.name \in {"clear_alarm_flag", "control_alarm_interrupt"}) =>
        LET own == IF op.name = "clear_alarm_flag" THEN 64 ELSE 128
        IN  /\ BitAnd(regs[CONTROL_2], 255 - own) = BitAnd(pre[CONTROL_2], 255 - own)
            /\ \A a \in Registers \ {CONTROL_2} : regs[a] = pre[a]
            /\ \A i \in 1..Len(txns) : txns[i].bytes[1] \notin AlarmRegisters

C20_Witness ==
    /\ op.name = "clear_alarm_flag" /\ result.kind = "Ok"
    /\ pre[CONTROL_2] = 255
    /\ regs[CONTROL_2] = 191
    /\ Len(txns) = 2

(***************************************************************************)
(* Independence of the alarm fields                                        *)
(***************************************************************************)
\* C21: a set_alarm_<field> or control_alarm_<field> call reads and writes
\* only its own field's alarm register; the other four alarm registers and
\* all non-alarm registers are the same as before the call.
C21_AlarmFieldsIndependent ==
    (op.name \in AlarmSetters \cup AlarmControls) =>
        /\ \A a \in Registers \ {op.reg} : regs[a] = pre[a]
        /\ \A i \in 1..Len(txns) : txns[i].bytes[1] = op.reg
        /\ \A i \in 1..Len(txns) : Len(txns[i].bytes) + txns[i].nread = 2

C21_Witness ==
    /\ op.name = "set_alarm_minutes" /\ op.val = 59 /\ result.kind = "Ok"
    /\ regs[MINUTE_ALARM] # pre[MINUTE_ALARM]
    /\ regs[SECOND_ALARM] # regs[HOUR_ALARM]
    /\ regs[SECOND_ALARM] = pre[SECOND_ALARM]

(***************************************************************************)
(* Alarm getters and the enable bit                                        *)
(***************************************************************************)
\* what get_alarm_<field> returns on the registers r
AlarmQuery(reg, r) ==
    CASE reg = SECOND_ALARM  -> get_alarm_seconds(Machine(r), NoFault).r
      [] reg = MINUTE_ALARM  -> get_alarm_minutes(Machine(r), NoFault).r
      [] reg = HOUR_ALARM    -> get_alarm_hours(Machine(r), NoFault).r
      [] reg = DAY_ALARM     -> get_alarm_day(Machine(r), NoFault).r
      [] reg = WEEKDAY_ALARM -> get_alarm_weekday(Machine(r), NoFault).r

\* C24: after a successful set_alarm_<field>(v), get_alarm_<field> returns
\* v whether the field's AE bit is 0 or 1, and a control_alarm_<field>
\* call does not change what get_alarm_<field> returns.
C24_GetterIgnoresAE ==
    /\ (op.name \in AlarmSetters /\ result.kind = "Ok") =>
           AlarmQuery(op.reg, regs) = OkByte(op.val)
    /\ (op.name \in AlarmControls) =>
           AlarmQuery(op.reg, regs) = AlarmQuery(op.reg, pre)

C24_Witness ==
    /\ op.name = "control_alarm_seconds" /\ op.status = "Off" /\ result.kind = "Ok"
    /\ pre[SECOND_ALARM] = 35
    /\ regs[SECOND_ALARM] = 163
    /\ AlarmQuery(SECOND_ALARM, regs) = OkByte(23)

(***************************************************************************)
(* Read-modify-write calls step by step.  A call that reads a register and *)
(* then writes it awaits the transport twice; between the two awaits the   *)
(* call holds the byte it read in a local, the caller may drop the future, *)
(* and another master on the bus may write the chip.                       *)
(***************************************************************************)
RmwOps ==
    {"set_register_bit_flag", "clear_register_bit_flag",
     "set_alarm_seconds", "set_alarm_hours"}

RmwMasks == {AF, AIE}

RmwRegisters == {CONTROL_2, SECOND_ALARM, HOUR_ALARM}

\* 0x59 has AF set and AIE, AE clear; 0xA5 has AIE, AE set and AF clear
ForeignBytes == {89, 165}

\* either transport call of a read-modify-write call may lose arbitration
\* to the other master
RmwFaults == {f \in Faults(2) : f.err # "Nack"}

Pending == [NoResult EXCEPT !.kind = "Pending"]

Cancelled == [NoResult EXCEPT !.kind = "Cancelled"]

\* the call o run to its end on the machine m
RmwCall(o, m, f) ==
    CASE o.name = "set_register_bit_flag"   -> set_register_bit_flag(m, o.reg, o.val, f)
      [] o.name = "clear_register_bit_flag" -> clear_register_bit_flag(m, o.reg, o.val, f)
      [] o.name = "set_alarm_seconds"       -> set_alarm_seconds(m, o.val, f)
      [] o.name = "set_alarm_hours"         -> set_alarm_hours(m, o.val, f)

\* The call runs up to the end of its first transport call.  A call that
\* has nothing more to send returns at once; otherwise it is suspended
\* with the byte it read (pre[o.reg]) in hand.
Begin(o, f) ==
    LET out       == RmwCall(o, Machine(regs), f)
        suspended == Len(out.m.txns) > 1
    IN  /\ pre' = regs
        /\ op' = o
        /\ regs' = IF suspended THEN regs ELSE out.m.regs
        /\ txns' = IF suspended THEN SubSeq(out.m.txns, 1, 1) ELSE out.m.txns
        /\ result' = IF suspended THEN Pending ELSE out.r
        /\ nops' = nops + 1
        /\ rmw' = [rmw EXCEPT !.pc = IF suspended THEN "read_done" ELSE "idle",
                              !.f = f, !.before = regs[o.reg],
                              !.window = FALSE, !.after = FALSE]

StartSetRegisterBitFlag ==
    \E mask \in RmwMasks, f \in RmwFaults :
        /\ CanCall
        /\ rmw.pc = "idle"
        /\ Begin([NoOp EXCEPT !.name = "set_register_bit_flag",
                               !.reg = CONTROL_2, !.val = mask], f)

StartClearRegisterBitFlag ==
    \E mask \in RmwMasks, f \in RmwFaults :
        /\ CanCall
        /\ rmw.pc = "idle"
        /\ Begin([NoOp EXCEPT !.name = "clear_register_bit_flag",
                               !.reg = CONTROL_2, !.val = mask], f)

StartSetAlarmSeconds ==
    \E v \in {59, 60}, f \in RmwFaults :
        /\ CanCall
        /\ rmw.pc = "idle"
        /\ Begin([NoOp EXCEPT !.name = "set_alarm_seconds",
                               !.reg = SECOND_ALARM, !.val = v], f)

StartSetAlarmHours ==
    \E v \in {23, 24}, f \in RmwFaults :
        /\ CanCall
        /\ rmw.pc = "idle"
        /\ Begin([NoOp EXCEPT !.name = "set_alarm_hours",
                               !.reg = HOUR_ALARM, !.val = v], f)

\* the write half that reads the register again before it computes the
\* byte to write
RmwStep_mut ==
    /\ rmw.pc = "read_done"
    /\ LET out  == RmwCall(op, Machine(regs), rmw.f)
           more == Len(out.m.txns) > Len(txns)
           w    == IF more
                   THEN i2c_write([regs |-> regs, txns |-> txns],
                                  out.m.txns[Len(txns) + 1].bytes, rmw.f)
                   ELSE [m |-> [regs |-> regs, txns |-> txns], r |-> out.r]
           done == Len(w.m.txns) >= Len(out.m.txns) \/ w.r.kind # "Ok"
       IN  /\ regs' = w.m.regs
           /\ txns' = w.m.txns
           /\ result' = IF ~done THEN Pending
                        ELSE IF w.r.kind # "Ok" THEN w.r ELSE out.r
           /\ rmw' = [rmw EXCEPT !.pc = IF done THEN "idle" ELSE "read_done",
                                 !.before = regs[op.reg]]
    /\ UNCHANGED <<pre, op, nops>>

\* The suspended call resumes: its next transport call is the one the call
\* makes with the byte it read when it started (pre), sent to the chip as
\* it is now.
RmwStep ==
    /\ rmw.pc = "read_done"
    /\ LET out  == RmwCall(op, Machine(pre), rmw.f)
           w    == i2c_write([regs |-> regs, txns |-> txns],
                             out.m.txns[Len(txns) + 1].bytes, rmw.f)
           done == Len(w.m.txns) >= Len(out.m.txns) \/ w.r.kind # "Ok"
       IN  /\ regs' = w.m.regs
           /\ txns' = w.m.txns
           /\ result' = IF ~done THEN Pending
                        ELSE IF w.r.kind # "Ok" THEN w.r ELSE out.r
           /\ rmw' = [rmw EXCEPT !.pc = IF done THEN "idle" ELSE "read_done",
                                 !.before = regs[op.reg]]
    /\ UNCHANGED <<pre, op, nops>>

\* The caller drops the future of the suspended call: nothing more is sent.
RmwCancel ==
    /\ rmw.pc = "read_done"
    /\ result' = Cancelled
    /\ rmw' = [rmw EXCEPT !.pc = "idle"]
    /\ UNCHANGED <<regs, pre, op, txns, nops>>

\* Another master on the bus writes one byte to one register of the chip.
\* What it wrote before the driver's first call is part of the registers'
\* initial contents.
OtherMasterWrite ==
    \E a \in RmwRegisters, b \in ForeignBytes :
        /\ rmw.nforeign < MaxForeign
        /\ op.name \in RmwOps
        /\ regs' = [regs EXCEPT ![a] = b]
        /\ rmw' = [rmw EXCEPT
                     !.nforeign = @ + 1,
                     !.window = @ \/ (rmw.pc = "read_done" /\ a = op.reg),
                     !.after  = @ \/ (rmw.pc = "idle" /\ op.name \in RmwOps /\ a = op.reg)]
        /\ UNCHANGED <<pre, op, result, txns, nops>>

NextRmw ==
    \/ StartSetRegisterBitFlag
    \/ StartClearRegisterBitFlag
    \/ StartSetAlarmSeconds
    \/ StartSetAlarmHours
    \/ RmwStep
    \/ RmwCancel
    \/ OtherMasterWrite

SpecRmw == Init /\ [][NextRmw]_vars

\* the byte the call o leaves in its register when the register held d
RmwFinal(o, d) ==
    CASE o.name = "set_register_bit_flag"   -> BitOr(d, o.val)
      [] o.name = "clear_register_bit_flag" -> BitAnd(d, BitNot(o.val))
      [] o.name \in {"set_alarm_seconds", "set_alarm_hours"} ->
             BitOr(BitAnd(d, AE), encode_bcd(o.val))

\* the call has returned Ok after writing, and nobody wrote its register since
RmwWrote ==
    /\ op.name \in RmwOps
    /\ rmw.pc = "idle"
    /\ result.kind = "Ok"
    /\ Len(txns) = 2
    /\ ~rmw.after

\* C22: a read-modify-write call is a read followed by at most one write,
\* with nothing atomic about the pair: the byte written is computed from the
\* byte read when the call started, so a write by another master to the same
\* register between the two is overwritten; when no other master writes the
\* register in that window, the register ends as the call applied to the
\* byte it held just before the driver's write (no update is lost).
C22_StaleWriteLosesUpdate ==
    /\ (op.name \in RmwOps) =>
           /\ Len(txns) <= 2
           /\ \A i \in 1..Len(txns) :
                  txns[i].kind = (IF i = 1 THEN "write_read" ELSE "write")
    /\ RmwWrote => regs[op.reg] = RmwFinal(op, pre[op.reg])
    /\ (RmwWrote /\ ~rmw.window) => regs[op.reg] = RmwFinal(op, rmw.before)

\* a lost update: another master's byte 89 in CONTROL_2 is replaced by the
\* byte computed from the 0 the driver had read
C22_Witness ==
    /\ RmwWrote /\ rmw.window
    /\ op.name = "set_register_bit_flag" /\ op.val = AIE
    /\ pre[CONTROL_2] = 0 /\ rmw.before = 89
    /\ regs[CONTROL_2] = AIE
    /\ regs[CONTROL_2] # RmwFinal(op, rmw.before)

\* no other master has written the register since the call started
RmwUndisturbed == op.name \in RmwOps /\ ~rmw.window /\ ~rmw.after

\* C23: a read-modify-write call that is cancelled, or whose transport
\* fails, after its read leaves its register at the byte it held when the
\* call started; and at every moment of the call the register holds either
\* that byte or the call's final byte, never something in between.
C23_NoTornRegister ==
    /\ RmwUndisturbed =>
           regs[op.reg] \in {pre[op.reg], RmwFinal(op, pre[op.reg])}
    /\ (RmwUndisturbed /\ result.kind \in {"Cancelled", "I2C", "Pending"}) =>
           regs[op.reg] = pre[op.reg]

C23_Witness ==
    /\ RmwUndisturbed
    /\ op.name = "set_alarm_hours" /\ op.val = 23
    /\ result.kind = "Cancelled"
    /\ Len(txns) = 1
    /\ regs[HOUR_ALARM] = pre[HOUR_ALARM]
    /\ RmwFinal(op, pre[HOUR_ALARM]) # pre[HOUR_ALARM]

====
